---- MODULE Spec2Model ----
(***************************************************************************)
(* Stock screener: the radar queue kept in Redis (a list plus a companion  *)
(* membership set), the RateLimiter guarding the price provider, and the   *)
(* screening orchestrator (per-symbol pipeline and full-universe run).     *)
(*                                                                         *)
(* The specifications share the variables; each one moves the variables    *)
(* of one component and leaves the others alone:                           *)
(*   RadarSpec    a single caller issuing add / remove on the radar queue  *)
(*   LimiterSpec  concurrent callers of RateLimiter.wait_if_needed         *)
(*   LimiterLive  LimiterSpec with the fairness of the thread scheduler    *)
(*   ScreenSpec   screen_all_stocks over a thread pool                     *)
(*   ServiceSpec  requests of /screen/stock on the event loop together     *)
(*                with one screen_all_stocks run over a small universe     *)
(*   ClassifySpec one call of LLMBreakoutService.analyze_breakout          *)
(*   ClearSpec    one screen_all_stocks run together with a request of     *)
(*                /data/clear                                              *)
(*                                                                         *)
(* Units: time is in seconds; a confidence is in percent (0.6 is 60).      *)
(***************************************************************************)
EXTENDS Integers, Sequences, FiniteSets, TLC

VARIABLES
    \* ---- Redis: radar queue (redis_service.py)
    radarList,               \* list "stocks:radar"      (REDIS_RADAR_QUEUE_KEY)
    radarSet,                \* set  "stocks:radar:set"
    \* ---- the single radar caller of RadarSpec
    lastCall,                \* the last radar operation and what it returned
    nCalls,                  \* radar operations issued so far
    netEffect,               \* per symbol: the last operation that took effect
    \* ---- RateLimiter (rate_limiter.py)
    requests_per_minute,
    delay_between_requests,
    request_times,           \* deque of timestamps inside the window
    last_request_time,       \* <<>> is None, <<t>> is the timestamp t
    lock,                    \* holder of self.lock, NoHolder when free
    lpc,                     \* per caller: position in wait_if_needed
    lnow,                    \* per caller: the local variable now
    wakeAt,                  \* per caller: when its time.sleep ends
    clock,                   \* datetime.now()
    acquired,                \* every timestamp ever recorded, in order
    nAcquire,                \* calls of wait_if_needed issued so far
    \* ---- Redis: stock list and per-symbol data (redis_service.py)
    stockList,               \* list "stocks:list": the universe, in order
    stockData,               \* "stocks:data:<symbol>": <<>> absent, <<d>> stored
    \* ---- screen_all_stocks (screener_orchestrator.py)
    max_concurrent,
    runPc,                   \* "idle", "gather", "done"
    runStatus,               \* 'status' of the returned dictionary
    results,                 \* the counters of the returned 'results'
    \* ---- one pipeline (screen_single_stock) per submitted task (index into
    \*      stockList) and per request of the route /screen/stock
    tsymbol,                 \* the argument symbol
    tpc,                     \* position of the task's pipeline
    tprice,                  \* latest_price
    tverdict,                \* breakout_analysis: <<>> unset, <<v>> set
    tresult,                 \* what _screen_stock_sync handed to gather
    fetched,                 \* what the price provider returned to the task
    calls,                   \* the collaborators the task invoked, in order
    faulted,                 \* a step of the pipeline failed or raised
    tstored,                 \* store_stock_data: "none", "ok", "failed"
    tadded,                  \* add_stock_to_radar: "none" (not called), "tracked",
                             \* "inserted" or "failed"
    tindicators,             \* calculate_all_indicators: "none" (not called),
                             \* "map" or "empty" (None or {})
    \* ---- LLMBreakoutService.analyze_breakout (llm_service.py)
    api_key,                 \* TRUE when settings.LLM_API_KEY is set
    remote,                  \* what the remote service does with the request
    indicators,              \* the argument indicators
    analysis,                \* <<>> before the call, <<outcome>> after it
    \* ---- route /data/clear: RedisService.clear_all_data (redis_service.py)
    clearPc,                 \* "idle", "scan" (after the first delete), "delete"
    clearKeys,               \* the symbols whose data keys client.keys returned
    nClears                  \* requests of /data/clear so far

radarVars   == <<radarList, radarSet>>
callerVars  == <<lastCall, nCalls, netEffect>>
limiterVars == <<requests_per_minute, delay_between_requests, request_times,
                 last_request_time, lock, lpc, lnow, wakeAt, clock, acquired,
                 nAcquire>>
storeVars   == <<stockList, stockData>>
runVars     == <<max_concurrent, runPc, runStatus, results>>
taskVars    == <<tsymbol, tpc, tprice, tverdict, tresult, fetched, calls, faulted,
                 tstored, tadded, tindicators>>
screenVars  == <<storeVars, runVars, taskVars>>
classifyVars == <<api_key, remote, indicators, analysis>>
clearVars   == <<clearPc, clearKeys, nClears>>
vars == <<radarVars, callerVars, limiterVars, screenVars, classifyVars, clearVars>>

(***************************************************************************)
(* Bounds of the model.                                                    *)
(***************************************************************************)
MaxOps      == 5      \* radar operations of the single caller
MaxAcquire  == 4      \* calls of wait_if_needed over all callers
NumCallers  == 2      \* concurrent callers of the limiter
MaxRPM      == 2      \* requests_per_minute ranges over 1..MaxRPM
MaxTicks    == 7      \* the clock runs freely for MaxTicks quanta

Symbols == {"AAA", "BBB"}

(***************************************************************************)
(* Verdicts (BreakoutAnalysis): is_breakout and confidence in percent.     *)
(***************************************************************************)
Confidences == {0, 50, 60, 61, 100}
Verdicts    == [is_breakout : BOOLEAN, confidence : Confidences]
Prices      == {10, 20}

(***************************************************************************)
(* Redis commands on the radar keys.                                       *)
(***************************************************************************)
Rpush(list, e)     == Append(list, e)
Sadd(set, m)       == set \cup {m}
Srem(set, m)       == set \ {m}
Sismember(set, m)  == m \in set

\* radar_queue.py radar_data wrapped by redis_service.py add_to_radar
RadarEntry(s, a, p) ==
    [symbol |-> s, breakout_analysis |-> a, last_price |-> p]

\* RedisService.is_in_radar
IsInRadar(s) == Sismember(radarSet, s)

\* RedisService.get_radar_stocks / RadarQueueService.get_all_radar_stocks
GetRadarStocks == radarList

\* RadarQueueService.get_radar_count
GetRadarCount == Len(GetRadarStocks)

\* Number of entries of the ordered list that carry symbol s
EntriesOf(list, s) == Cardinality({i \in DOMAIN list : list[i].symbol = s})

\* RedisService.add_to_radar: rpush of the entry, then sadd of the symbol
ListAfterAdd(list, e) == Rpush(list, e)
SetAfterAdd(set, s)   == Sadd(set, s)

\* RedisService.remove_from_radar: srem only; the list is left as it is
\* ("For now, we'll just remove from the set")
SetAfterRemove_NoSrem(set, s) == set
SetAfterRemove(set, s)        == Srem(set, s)
ListAfterRemove(list, s)      == list

\* RadarQueueService.add_stock_to_radar: "Check if already in radar"
AlreadyTracked_Never(set, s) == FALSE
AlreadyTracked(set, s)       == Sismember(set, s)

(***************************************************************************)
(* RadarSpec: one caller, operations one after the other.                  *)
(***************************************************************************)
RadarInit ==
    /\ radarList = <<>>
    /\ radarSet = {}

CallerInit ==
    /\ lastCall = [op |-> "none", symbol |-> "", ret |-> FALSE]
    /\ nCalls = 0
    /\ netEffect = [s \in Symbols |-> "none"]

\* What the single radar caller leaves alone
RadarFrame == UNCHANGED <<limiterVars, screenVars, classifyVars, clearVars>>

\* RadarQueueService.add_stock_to_radar(symbol, breakout_analysis, last_price)
AddStockToRadar(s, a, p) ==
    /\ RadarFrame
    /\ nCalls < MaxOps
    /\ nCalls' = nCalls + 1
    /\ IF AlreadyTracked(radarSet, s)
         THEN /\ UNCHANGED radarVars
              /\ lastCall' = [op |-> "add", symbol |-> s, ret |-> FALSE]
              /\ UNCHANGED netEffect
         ELSE /\ radarList' = ListAfterAdd(radarList, RadarEntry(s, a, p))
              /\ radarSet' = SetAfterAdd(radarSet, s)
              /\ lastCall' = [op |-> "add", symbol |-> s, ret |-> TRUE]
              /\ netEffect' = [netEffect EXCEPT ![s] = "add"]

\* RadarQueueService.remove_stock_from_radar(symbol)
RemoveStockFromRadar(s) ==
    /\ RadarFrame
    /\ nCalls < MaxOps
    /\ nCalls' = nCalls + 1
    /\ radarSet' = SetAfterRemove(radarSet, s)
    /\ radarList' = ListAfterRemove(radarList, s)
    /\ lastCall' = [op |-> "remove", symbol |-> s, ret |-> TRUE]
    /\ netEffect' = [netEffect EXCEPT ![s] = "remove"]

RadarAdd ==
    \E s \in Symbols, a \in {v \in Verdicts : v.confidence \in {61, 100} /\ v.is_breakout},
       p \in Prices :
        AddStockToRadar(s, a, p)

RadarRemove == \E s \in Symbols : RemoveStockFromRadar(s)

RadarNext ==
    \/ RadarAdd
    \/ RadarRemove

(***************************************************************************)
(* RateLimiter (rate_limiter.py).                                          *)
(***************************************************************************)
WindowSeconds == 60       \* timedelta(minutes=1)
Quantum       == 20       \* the clock advances by Quantum seconds per tick
NoHolder      == 0        \* self.lock is free

LCallers == 1 .. NumCallers
Delays   == {0, Quantum, 2 * Quantum}

\* "while self.request_times and self.request_times[0] < cutoff: popleft()"
RECURSIVE PurgeOld(_, _)
PurgeOld(times, cutoff) ==
    IF times # <<>> /\ Head(times) < cutoff
      THEN PurgeOld(Tail(times), cutoff)
      ELSE times

\* "if len(self.request_times) >= self.requests_per_minute"
QuotaReached(times, n) == Len(times) >= n

\* "wait_time = (oldest + timedelta(minutes=1) - now).total_seconds()"
QuotaWait(times, now) == Head(times) + WindowSeconds - now

\* "elapsed = (now - self.last_request_time).total_seconds()"
Elapsed(now, last) == now - last[1]

\* "if self.last_request_time and self.delay_between_requests > 0" and
\* "if elapsed < self.delay_between_requests"
MustDelay(now, last, d) == last # <<>> /\ d > 0 /\ Elapsed(now, last) < d

\* "time.sleep(wait_time); now = datetime.now()": the timestamp recorded
\* after the spacing sleep is read afresh from the clock
NowAfterDelay_Stale(old, clk) == old
NowAfterDelay(old, clk)       == clk

\* RateLimiter.__init__ apart from its two arguments
LimiterFresh ==
    /\ request_times = <<>>
    /\ last_request_time = <<>>
    /\ lock = NoHolder
    /\ lpc = [t \in LCallers |-> "idle"]
    /\ lnow = [t \in LCallers |-> 0]
    /\ wakeAt = [t \in LCallers |-> 0]
    /\ clock = 0
    /\ acquired = <<>>
    /\ nAcquire = 0

LimiterInit ==
    /\ requests_per_minute \in 1 .. MaxRPM
    /\ delay_between_requests \in Delays
    /\ LimiterFresh

limiterConfig == <<requests_per_minute, delay_between_requests>>

\* What the limiter's steps leave alone
LimiterFrame == UNCHANGED <<radarVars, callerVars, screenVars, classifyVars,
                            clearVars>>

\* A caller invokes wait_if_needed (directly or through __enter__)
Call(t) ==
    /\ LimiterFrame
    /\ lpc[t] = "idle"
    /\ nAcquire < MaxAcquire
    /\ nAcquire' = nAcquire + 1
    /\ lpc' = [lpc EXCEPT ![t] = "enter"]
    /\ UNCHANGED <<limiterConfig, request_times, last_request_time, lock, lnow,
                   wakeAt, clock, acquired>>

\* wait_if_needed without "with self.lock:"
Enter_NoLock(t) ==
    /\ LimiterFrame
    /\ lpc[t] = "enter"
    /\ lock' = t
    /\ LET now    == clock
           cutoff == now - WindowSeconds
           times  == PurgeOld(request_times, cutoff)
       IN  /\ request_times' = times
           /\ lnow' = [lnow EXCEPT ![t] = now]
           /\ IF QuotaReached(times, requests_per_minute) /\ QuotaWait(times, now) > 0
                THEN /\ lpc' = [lpc EXCEPT ![t] = "sleep_quota"]
                     /\ wakeAt' = [wakeAt EXCEPT ![t] = clock + QuotaWait(times, now)]
                ELSE IF MustDelay(now, last_request_time, delay_between_requests)
                  THEN /\ lpc' = [lpc EXCEPT ![t] = "sleep_delay"]
                       /\ wakeAt' = [wakeAt EXCEPT ![t] =
                            clock + (delay_between_requests
                                       - Elapsed(now, last_request_time))]
                  ELSE /\ lpc' = [lpc EXCEPT ![t] = "record"]
                       /\ UNCHANGED wakeAt
    /\ UNCHANGED <<limiterConfig, last_request_time, clock, acquired, nAcquire>>

\* "with self.lock:" followed by the purge and the two admission checks.
\* threading.Lock is not reentrant: the guard does not let its holder in again.
Enter(t) ==
    /\ LimiterFrame
    /\ lpc[t] = "enter"
    /\ lock = NoHolder
    /\ lock' = t
    /\ LET now    == clock
           cutoff == now - WindowSeconds
           times  == PurgeOld(request_times, cutoff)
       IN  /\ request_times' = times
           /\ lnow' = [lnow EXCEPT ![t] = now]
           /\ IF QuotaReached(times, requests_per_minute) /\ QuotaWait(times, now) > 0
                THEN /\ lpc' = [lpc EXCEPT ![t] = "sleep_quota"]
                     /\ wakeAt' = [wakeAt EXCEPT ![t] = clock + QuotaWait(times, now)]
                ELSE IF MustDelay(now, last_request_time, delay_between_requests)
                  THEN /\ lpc' = [lpc EXCEPT ![t] = "sleep_delay"]
                       /\ wakeAt' = [wakeAt EXCEPT ![t] =
                            clock + (delay_between_requests
                                       - Elapsed(now, last_request_time))]
                  ELSE /\ lpc' = [lpc EXCEPT ![t] = "record"]
                       /\ UNCHANGED wakeAt
    /\ UNCHANGED <<limiterConfig, last_request_time, clock, acquired, nAcquire>>

\* "time.sleep(wait_time)" has ended; "return self.wait_if_needed()" calls the
\* method again from inside the with block, the lock still held by t
WakeQuota(t) ==
    /\ LimiterFrame
    /\ lpc[t] = "sleep_quota"
    /\ clock >= wakeAt[t]
    /\ lpc' = [lpc EXCEPT ![t] = "enter"]
    /\ UNCHANGED <<limiterConfig, request_times, last_request_time, lock, lnow,
                   wakeAt, clock, acquired, nAcquire>>

\* the spacing sleep has ended: "now = datetime.now()"
WakeDelay(t) ==
    /\ LimiterFrame
    /\ lpc[t] = "sleep_delay"
    /\ clock >= wakeAt[t]
    /\ lnow' = [lnow EXCEPT ![t] = NowAfterDelay(lnow[t], clock)]
    /\ lpc' = [lpc EXCEPT ![t] = "record"]
    /\ UNCHANGED <<limiterConfig, request_times, last_request_time, lock,
                   wakeAt, clock, acquired, nAcquire>>

\* "self.request_times.append(now); self.last_request_time = now" and the end
\* of the with block
Record(t) ==
    /\ LimiterFrame
    /\ lpc[t] = "record"
    /\ request_times' = Append(request_times, lnow[t])
    /\ last_request_time' = <<lnow[t]>>
    /\ acquired' = Append(acquired, lnow[t])
    /\ lock' = NoHolder
    /\ lpc' = [lpc EXCEPT ![t] = "idle"]
    /\ UNCHANGED <<limiterConfig, lnow, wakeAt, clock, nAcquire>>

Sleeping(t) == lpc[t] \in {"sleep_quota", "sleep_delay"}

\* The clock advances; it keeps running while a sleeper has not been woken
Tick ==
    /\ LimiterFrame
    /\ \/ clock < MaxTicks * Quantum
       \/ \E t \in LCallers : Sleeping(t) /\ wakeAt[t] > clock
    /\ clock' = clock + Quantum
    /\ UNCHANGED <<limiterConfig, request_times, last_request_time, lock, lpc,
                   lnow, wakeAt, acquired, nAcquire>>

LimiterStep(t) == WakeQuota(t) \/ WakeDelay(t) \/ Record(t)

LimiterNext ==
    \/ \E t \in LCallers : Call(t)
    \/ \E t \in LCallers : Enter(t)
    \/ \E t \in LCallers : WakeQuota(t)
    \/ \E t \in LCallers : WakeDelay(t)
    \/ \E t \in LCallers : Record(t)
    \/ Tick

(***************************************************************************)
(* Screening orchestrator (screener_orchestrator.py).                      *)
(***************************************************************************)
MaxConcurrent == 2        \* max_concurrent ranges over 0..MaxConcurrent
MaxRequests   == 2        \* requests of the route /screen/stock
MaxClears     == 1        \* requests of the route /data/clear
RadarThreshold == 60      \* "if confidence > 0.6", in percent
YFINANCE_REQUESTS_PER_MINUTE == 2000

\* The universe stored by initialize_stock_list: unique symbols, in order
SymbolOrder == <<"AAA", "BBB", "CCC">>
Universes   == {SubSeq(SymbolOrder, 1, n) : n \in 0 .. Len(SymbolOrder)}
TaskIds     == DOMAIN SymbolOrder
\* The tasks of the run: the indices of its local list "symbols"
Tasks       == {i \in TaskIds : tsymbol[i] # ""}

\* Pipelines: the tasks of the pool, then the requests of /screen/stock
RequestIds  == (Len(SymbolOrder) + 1) .. (Len(SymbolOrder) + MaxRequests)
PipelineIds == TaskIds \cup RequestIds

\* What the classifier may answer in a pipeline
ScreenVerdicts == {v \in Verdicts : v.confidence \in {60, 61}}

NoResult == [status |-> "none", added_to_radar |-> FALSE]
NoCounters ==
    [total |-> 0, processed |-> 0, breakouts |-> 0, errors |-> 0, no_data |-> 0]

\* Step 6: "if breakout_analysis.get('is_breakout', False)" and
\* "if confidence > 0.6"
Qualifies_AtThreshold(v) == v.is_breakout /\ v.confidence >= RadarThreshold
Qualifies(v)             == v.is_breakout /\ v.confidence > RadarThreshold

\* 'added_to_radar' of the success dictionary
AddedToRadarFlag(v) == v.is_breakout /\ v.confidence > RadarThreshold

\* Step 5: the dictionary written by store_stock_data
StockDataOf(s, p, v) ==
    [symbol |-> s, latest_price |-> p, breakout_analysis |-> v]

\* The verdict a task holds once the classifier has answered
Verdict(i) == tverdict[i][1]

\* What add_stock_to_radar returned to pipeline i: True only after rpush and
\* sadd went through ("if success: return True")
AddReturned(i) == tadded[i] = "inserted"

\* Pipelines started and not yet finished
InFlight == {i \in Tasks : tpc[i] \notin {"queued", "done"}}

\* ThreadPoolExecutor(max_workers=max_concurrent): a queued task gets a
\* worker thread only while fewer than max_workers tasks are running
WorkerFree_Unbounded(running, cap) == TRUE
WorkerFree(running, cap)           == Cardinality(running) < cap

\* "Process results": what one result adds to the counters
CountResult_SkipRaised(acc, r) ==
    IF r.status = "exception" THEN acc
    ELSE LET a1 == [acc EXCEPT !.processed = @ + 1] IN
         IF r.status = "success"
           THEN (IF r.added_to_radar THEN [a1 EXCEPT !.breakouts = @ + 1] ELSE a1)
         ELSE IF r.status = "no_data"
           THEN [a1 EXCEPT !.no_data = @ + 1]
         ELSE a1

\* "Process results" without the final "else: results['errors'] += 1"
CountResult_NoElse(acc, r) ==
    IF r.status = "exception" THEN [acc EXCEPT !.errors = @ + 1]
    ELSE LET a1 == [acc EXCEPT !.processed = @ + 1] IN
         IF r.status = "success"
           THEN (IF r.added_to_radar THEN [a1 EXCEPT !.breakouts = @ + 1] ELSE a1)
         ELSE IF r.status = "no_data"
           THEN [a1 EXCEPT !.no_data = @ + 1]
         ELSE a1

CountResult(acc, r) ==
    IF r.status = "exception" THEN [acc EXCEPT !.errors = @ + 1]
    ELSE LET a1 == [acc EXCEPT !.processed = @ + 1] IN
         IF r.status = "success"
           THEN (IF r.added_to_radar THEN [a1 EXCEPT !.breakouts = @ + 1] ELSE a1)
         ELSE IF r.status = "no_data"
           THEN [a1 EXCEPT !.no_data = @ + 1]
         ELSE [a1 EXCEPT !.errors = @ + 1]

\* "for result in screening_results", from result i on
RECURSIVE FoldResults(_, _, _)
FoldResults(res, i, acc) ==
    IF i > Cardinality(Tasks) THEN acc
    ELSE FoldResults(res, i + 1, CountResult(acc, res[i]))

\* The symbols that can have a key "stocks:data:<symbol>"
StoredSymbols == Symbols \cup {SymbolOrder[i] : i \in TaskIds}

ScreenIdle ==
    /\ stockData = [s \in StoredSymbols |-> <<>>]
    /\ max_concurrent = 0
    /\ runPc = "idle"
    /\ runStatus = "none"
    /\ results = NoCounters
    /\ tsymbol = [i \in PipelineIds |-> ""]
    /\ tpc = [i \in PipelineIds |-> "none"]
    /\ tprice = [i \in PipelineIds |-> 0]
    /\ tverdict = [i \in PipelineIds |-> <<>>]
    /\ tresult = [i \in PipelineIds |-> NoResult]
    /\ fetched = [i \in PipelineIds |-> "none"]
    /\ calls = [i \in PipelineIds |-> <<>>]
    /\ faulted = [i \in PipelineIds |-> FALSE]
    /\ tstored = [i \in PipelineIds |-> "none"]
    /\ tadded = [i \in PipelineIds |-> "none"]
    /\ tindicators = [i \in PipelineIds |-> "none"]

ScreenInit ==
    /\ stockList \in Universes
    /\ ScreenIdle

\* What the orchestrator's steps leave alone
ScreenFrame == UNCHANGED <<callerVars, limiterVars, classifyVars, clearVars>>

\* A task's pipeline ends: what _screen_stock_sync returns (or raises)
Finish(i, r) ==
    /\ tpc' = [tpc EXCEPT ![i] = "done"]
    /\ tresult' = [tresult EXCEPT ![i] = r]

ErrorResult   == [status |-> "error", added_to_radar |-> FALSE]
NoDataResult  == [status |-> "no_data", added_to_radar |-> FALSE]
RaisedResult  == [status |-> "exception", added_to_radar |-> FALSE]
SuccessResult(v) == [status |-> "success", added_to_radar |-> AddedToRadarFlag(v)]

\* screen_single_stock never awaits: a request of /screen/stock occupies the
\* event loop from its first step to its last, so no other coroutine (a
\* further request, screen_all_stocks itself) runs in between; the worker
\* threads of the pool do
EventLoopFree ==
    /\ \A r \in RequestIds : tpc[r] \in {"none", "done"}
    /\ clearPc = "idle"

\* "if not stocks:"
NoStocks_Never(list) == FALSE
NoStocks(list)       == list = <<>>

\* screen_all_stocks up to the submission of the tasks (lines 179-216)
ScreenAllBegin(mc) ==
    /\ ScreenFrame
    /\ UNCHANGED tindicators
    /\ EventLoopFree
    /\ runPc = "idle"
    /\ max_concurrent' = mc
    /\ IF NoStocks(stockList) \/ mc <= 0
         THEN \* "No stocks in Redis", or ThreadPoolExecutor raises ValueError
              \* inside the try block
              /\ runPc' = "done"
              /\ runStatus' = "error"
              /\ UNCHANGED <<tpc, tsymbol>>
         ELSE /\ runPc' = "gather"
              /\ runStatus' = "running"
              /\ tpc' = [i \in PipelineIds |->
                           IF i \in DOMAIN stockList THEN "queued" ELSE tpc[i]]
              /\ tsymbol' = [i \in PipelineIds |->
                               IF i \in DOMAIN stockList THEN stockList[i]
                               ELSE tsymbol[i]]
    /\ UNCHANGED <<radarVars, storeVars, results, tprice, tverdict, tresult,
                   fetched, calls, faulted, tstored, tadded>>

\* A worker thread of the pool takes the oldest queued task and enters
\* _screen_stock_sync; asyncio.new_event_loop() may raise there
StartTask(i) ==
    /\ ScreenFrame
    /\ UNCHANGED tindicators
    /\ runPc = "gather"
    /\ tpc[i] = "queued"
    /\ \A j \in Tasks : j < i => tpc[j] # "queued"
    /\ WorkerFree(InFlight, max_concurrent)
    /\ \/ /\ tpc' = [tpc EXCEPT ![i] = "fetch"]
          /\ UNCHANGED <<tresult, faulted>>
       \/ /\ Finish(i, RaisedResult)
          /\ faulted' = [faulted EXCEPT ![i] = TRUE]
    /\ UNCHANGED <<radarVars, storeVars, runVars, tsymbol, tprice, tverdict,
                   fetched, calls, tstored, tadded>>

\* get_historical_data enters "with self.rate_limiter:" before it asks the
\* provider. With the clock still and the quota not reached wait_if_needed
\* purges, records now and returns; with the quota reached it does not return
AcquireForFetch ==
    /\ ~QuotaReached(PurgeOld(request_times, clock - WindowSeconds),
                     requests_per_minute)
    /\ request_times' =
          Append(PurgeOld(request_times, clock - WindowSeconds), clock)
    /\ last_request_time' = <<clock>>
    /\ acquired' = Append(acquired, clock)
    /\ nAcquire' = nAcquire + 1
    /\ UNCHANGED <<limiterConfig, lock, lpc, lnow, wakeAt, clock>>

\* Step 1: get_historical_data; None or an empty frame ends the pipeline
FetchData_NoShortCircuit(i) ==
    /\ UNCHANGED <<callerVars, classifyVars, clearVars>>
    /\ UNCHANGED tindicators
    /\ AcquireForFetch
    /\ tpc[i] = "fetch"
    /\ calls' = [calls EXCEPT ![i] = Append(@, "fetch")]
    /\ \E got \in {"data", "empty"} :
          /\ fetched' = [fetched EXCEPT ![i] = got]
          /\ tpc' = [tpc EXCEPT ![i] = "compute"]
          /\ UNCHANGED tresult
    /\ UNCHANGED <<radarVars, storeVars, runVars, tsymbol, tprice, tverdict,
                   faulted, tstored, tadded>>

\* get_historical_data without "with self.rate_limiter:"
FetchData_NoLimiter(i) ==
    /\ UNCHANGED <<callerVars, classifyVars, limiterVars, clearVars>>
    /\ UNCHANGED tindicators
    /\ tpc[i] = "fetch"
    /\ calls' = [calls EXCEPT ![i] = Append(@, "fetch")]
    /\ \E got \in {"data", "empty"} :
          /\ fetched' = [fetched EXCEPT ![i] = got]
          /\ IF got = "empty"
               THEN Finish(i, NoDataResult)
               ELSE tpc' = [tpc EXCEPT ![i] = "compute"] /\ UNCHANGED tresult
    /\ UNCHANGED <<radarVars, storeVars, runVars, tsymbol, tprice, tverdict,
                   faulted, tstored, tadded>>

FetchData(i) ==
    /\ UNCHANGED <<callerVars, classifyVars, clearVars>>
    /\ UNCHANGED tindicators
    /\ AcquireForFetch
    /\ tpc[i] = "fetch"
    /\ calls' = [calls EXCEPT ![i] = Append(@, "fetch")]
    /\ \E got \in {"data", "empty"} :
          /\ fetched' = [fetched EXCEPT ![i] = got]
          /\ IF got = "empty"
               THEN Finish(i, NoDataResult)
               ELSE tpc' = [tpc EXCEPT ![i] = "compute"] /\ UNCHANGED tresult
    /\ UNCHANGED <<radarVars, storeVars, runVars, tsymbol, tprice, tverdict,
                   faulted, tstored, tadded>>

\* Steps 2 and 3: calculate_all_indicators, whose None or {} ends the
\* pipeline with status 'error' ("if not indicators"), then
\* latest_price = float(df['Close'].iloc[-1]); an exception ends in "except"
ComputeIndicators_IgnoreEmpty(i) ==
    /\ ScreenFrame
    /\ tpc[i] = "compute"
    /\ calls' = [calls EXCEPT ![i] = Append(@, "indicators")]
    /\ \E got \in {"map", "empty"}, p \in Prices :
          /\ tindicators' = [tindicators EXCEPT ![i] = got]
          /\ tpc' = [tpc EXCEPT ![i] = "classify"]
          /\ tprice' = [tprice EXCEPT ![i] = p]
    /\ UNCHANGED <<radarVars, storeVars, runVars, tsymbol, tverdict, fetched,
                   tstored, tadded, tresult, faulted>>

ComputeIndicators(i) ==
    /\ ScreenFrame
    /\ tpc[i] = "compute"
    /\ calls' = [calls EXCEPT ![i] = Append(@, "indicators")]
    /\ \/ \E p \in Prices :
            /\ tindicators' = [tindicators EXCEPT ![i] = "map"]
            /\ tpc' = [tpc EXCEPT ![i] = "classify"]
            /\ tprice' = [tprice EXCEPT ![i] = p]
            /\ UNCHANGED <<tresult, faulted>>
       \/ /\ tindicators' = [tindicators EXCEPT ![i] = "empty"]
          /\ Finish(i, ErrorResult)
          /\ faulted' = [faulted EXCEPT ![i] = TRUE]
          /\ UNCHANGED tprice
       \/ /\ tindicators' = [tindicators EXCEPT ![i] = "map"]
          /\ Finish(i, ErrorResult)
          /\ faulted' = [faulted EXCEPT ![i] = TRUE]
          /\ UNCHANGED tprice
    /\ UNCHANGED <<radarVars, storeVars, runVars, tsymbol, tverdict, fetched,
                   tstored, tadded>>

\* Step 4: analyze_breakout; an exception ends in "except"
Classify_BeforeIndicators(i) ==
    /\ ScreenFrame
    /\ UNCHANGED tindicators
    /\ tpc[i] = "compute"
    /\ calls' = [calls EXCEPT ![i] = Append(@, "classify")]
    /\ \E v \in ScreenVerdicts :
          /\ tpc' = [tpc EXCEPT ![i] = "store"]
          /\ tverdict' = [tverdict EXCEPT ![i] = <<v>>]
    /\ UNCHANGED <<radarVars, storeVars, runVars, tsymbol, tprice, fetched,
                   tstored, tadded, tresult, faulted>>

Classify(i) ==
    /\ ScreenFrame
    /\ UNCHANGED tindicators
    /\ tpc[i] = "classify"
    /\ calls' = [calls EXCEPT ![i] = Append(@, "classify")]
    /\ \/ \E v \in ScreenVerdicts :
            /\ tpc' = [tpc EXCEPT ![i] = "store"]
            /\ tverdict' = [tverdict EXCEPT ![i] = <<v>>]
            /\ UNCHANGED <<tresult, faulted>>
       \/ /\ Finish(i, ErrorResult)
          /\ faulted' = [faulted EXCEPT ![i] = TRUE]
          /\ UNCHANGED tverdict
    /\ UNCHANGED <<radarVars, storeVars, runVars, tsymbol, tprice, fetched,
                   tstored, tadded>>

\* Step 5: store_stock_data; it returns False on a Redis error and the
\* pipeline does not look at what it returns
StoreData(i) ==
    /\ ScreenFrame
    /\ UNCHANGED tindicators
    /\ tpc[i] = "store"
    /\ calls' = [calls EXCEPT ![i] = Append(@, "store")]
    /\ \/ /\ stockData' = [stockData EXCEPT ![tsymbol[i]] =
                             <<StockDataOf(tsymbol[i], tprice[i], Verdict(i))>>]
          /\ tstored' = [tstored EXCEPT ![i] = "ok"]
       \/ /\ UNCHANGED stockData
          /\ tstored' = [tstored EXCEPT ![i] = "failed"]
    /\ tpc' = [tpc EXCEPT ![i] = "radar"]
    /\ UNCHANGED <<radarVars, stockList, runVars, tsymbol, tprice, tverdict,
                   tresult, fetched, faulted, tadded>>

\* Step 6: the decision, and in add_stock_to_radar the membership check
RadarDecide(i) ==
    /\ ScreenFrame
    /\ UNCHANGED tindicators
    /\ tpc[i] = "radar"
    /\ IF Qualifies(Verdict(i))
         THEN /\ calls' = [calls EXCEPT ![i] = Append(@, "radar")]
              /\ IF AlreadyTracked(radarSet, tsymbol[i])
                   THEN /\ Finish(i, SuccessResult(Verdict(i)))
                        /\ tadded' = [tadded EXCEPT ![i] = "tracked"]
                   ELSE /\ tpc' = [tpc EXCEPT ![i] = "rpush"]
                        /\ UNCHANGED <<tresult, tadded>>
         ELSE /\ Finish(i, SuccessResult(Verdict(i)))
              /\ UNCHANGED <<calls, tadded>>
    /\ UNCHANGED <<radarVars, storeVars, runVars, tsymbol, tprice, tverdict,
                   fetched, faulted, tstored>>

\* add_to_radar: "self.client.rpush(REDIS_RADAR_QUEUE_KEY, ...)"
RadarRpush(i) ==
    /\ ScreenFrame
    /\ UNCHANGED tindicators
    /\ tpc[i] = "rpush"
    /\ radarList' = ListAfterAdd(radarList,
                        RadarEntry(tsymbol[i], Verdict(i), tprice[i]))
    /\ tpc' = [tpc EXCEPT ![i] = "sadd"]
    /\ UNCHANGED <<radarSet, storeVars, runVars, tsymbol, tprice, tverdict,
                   tresult, fetched, calls, faulted, tstored, tadded>>

\* add_to_radar: "self.client.sadd('stocks:radar:set', symbol)"; it returns
\* True, or False when Redis raises; then the pipeline returns its success
\* dictionary
RadarSadd(i) ==
    /\ ScreenFrame
    /\ UNCHANGED tindicators
    /\ tpc[i] = "sadd"
    /\ \/ /\ radarSet' = SetAfterAdd(radarSet, tsymbol[i])
          /\ tadded' = [tadded EXCEPT ![i] = "inserted"]
       \/ /\ UNCHANGED radarSet
          /\ tadded' = [tadded EXCEPT ![i] = "failed"]
    /\ Finish(i, SuccessResult(Verdict(i)))
    /\ UNCHANGED <<radarList, storeVars, runVars, tsymbol, tprice, tverdict,
                   fetched, calls, faulted, tstored>>

\* asyncio.gather has every result: the counters are folded and returned
ScreenAllReturn ==
    /\ ScreenFrame
    /\ EventLoopFree
    /\ runPc = "gather"
    /\ \A i \in Tasks : tpc[i] = "done"
    /\ results' = FoldResults(tresult, 1,
                     [NoCounters EXCEPT !.total = Cardinality(Tasks)])
    /\ runStatus' = "success"
    /\ runPc' = "done"
    /\ UNCHANGED <<radarVars, storeVars, max_concurrent, taskVars>>

ScreenNext ==
    \/ \E mc \in 0 .. MaxConcurrent : ScreenAllBegin(mc)
    \/ \E i \in Tasks : StartTask(i)
    \/ \E i \in Tasks : FetchData(i)
    \/ \E i \in Tasks : ComputeIndicators(i)
    \/ \E i \in Tasks : Classify(i)
    \/ \E i \in Tasks : StoreData(i)
    \/ \E i \in Tasks : RadarDecide(i)
    \/ \E i \in Tasks : RadarRpush(i)
    \/ \E i \in Tasks : RadarSadd(i)
    \/ ScreenAllReturn

(***************************************************************************)
(* Classifier (llm_service.py).                                            *)
(* An optional value is <<>> (None, key missing) or <<v>>.  A confidence   *)
(* is the exact quotient num / den, kept as [num, den] with den > 0; MACD  *)
(* values are in tenths.                                                   *)
(***************************************************************************)
Frac(n, d)      == [num |-> n, den |-> d]
FracGT(f, n, d) == f.num * d > n * f.den          \* f > n / d
FracEq(f, n, d) == f.num * d = n * f.den          \* f = n / d

\* "indicators.get(k) is not None" / "k in indicators and indicators[k] is
\* not None"
Present(v) == v # <<>>

RsiValues  == {<<>>, <<25>>, <<30>>, <<50>>, <<70>>, <<80>>}
MacdPairs  == { << <<>>, <<>> >>, << <<10>>, <<>> >>, << <<10>>, <<5>> >>,
                << <<-10>>, <<-20>> >>, << <<10>>, <<20>> >> }
SmaPairs   == { << <<>>, <<>> >>, << <<110>>, <<>> >>, << <<110>>, <<100>> >>,
                << <<100>>, <<110>> >> }
BandSets   == { << <<>>, <<>>, <<>> >>, << <<120>>, <<100>>, <<80>> >>,
                << <<120>>, <<>>, <<80>> >> }
ObvValues  == {<<>>, <<1000>>}

\* What calculate_all_indicators hands to the classifier
IndicatorSets ==
    { [rsi |-> r, macd |-> m[1], macd_signal |-> m[2],
       sma_20 |-> a[1], sma_50 |-> a[2],
       bollinger_upper |-> b[1], bollinger_middle |-> b[2],
       bollinger_lower |-> b[3], obv |-> o] :
        r \in RsiValues, m \in MacdPairs, a \in SmaPairs, b \in BandSets,
        o \in ObvValues }

\* Every indicator absent
NoIndicators ==
    [rsi |-> <<>>, macd |-> <<>>, macd_signal |-> <<>>, sma_20 |-> <<>>,
     sma_50 |-> <<>>, bollinger_upper |-> <<>>, bollinger_middle |-> <<>>,
     bollinger_lower |-> <<>>, obv |-> <<>>]

\* ---- _fallback_analysis, block by block; scores are counted in half points
RsiCounted(ind) == Present(ind.rsi)
RsiScore2(ind) ==
    IF ~RsiCounted(ind) THEN 0
    ELSE LET rsi == ind.rsi[1] IN
         IF 30 < rsi /\ rsi < 70 THEN 1
         ELSE IF rsi < 30 THEN 2
         ELSE 0
RsiSignals(ind) ==
    IF ~RsiCounted(ind) THEN <<>>
    ELSE LET rsi == ind.rsi[1] IN
         IF 30 < rsi /\ rsi < 70 THEN <<"RSI neutral range">>
         ELSE IF rsi < 30 THEN <<"RSI oversold, potential bounce">>
         ELSE IF rsi > 70 THEN <<"RSI overbought, caution">>
         ELSE <<>>

MacdCounted(ind) == Present(ind.macd) /\ Present(ind.macd_signal)
MacdScore2(ind) ==
    IF ~MacdCounted(ind) THEN 0
    ELSE LET macd == ind.macd[1]
             signal == ind.macd_signal[1]
         IN  IF macd > signal /\ macd > 0 THEN 2
             ELSE IF macd > signal THEN 1
             ELSE 0
MacdSignals(ind) ==
    IF ~MacdCounted(ind) THEN <<>>
    ELSE LET macd == ind.macd[1]
             signal == ind.macd_signal[1]
         IN  IF macd > signal /\ macd > 0 THEN <<"MACD bullish crossover">>
             ELSE IF macd > signal THEN <<"MACD above signal line">>
             ELSE <<>>

SmaCounted(ind) == Present(ind.sma_20) /\ Present(ind.sma_50)
SmaScore2(ind) ==
    IF SmaCounted(ind) /\ ind.sma_20[1] > ind.sma_50[1] THEN 2 ELSE 0
SmaSignals(ind) ==
    IF SmaCounted(ind) /\ ind.sma_20[1] > ind.sma_50[1]
      THEN <<"20 SMA above 50 SMA (bullish)">> ELSE <<>>

\* "# Bollinger Bands": max_score += 1 and a signal, nothing for the score
BandsCounted(ind) ==
    /\ Present(ind.bollinger_upper)
    /\ Present(ind.bollinger_lower)
    /\ Present(ind.bollinger_middle)
BandSignals(ind) ==
    IF BandsCounted(ind) THEN <<"Bollinger Bands calculated">> ELSE <<>>

ObvSignals(ind) ==
    IF Present(ind.obv) THEN <<"Volume analysis available">> ELSE <<>>

Count(b) == IF b THEN 1 ELSE 0

FallbackScore2(ind) == RsiScore2(ind) + MacdScore2(ind) + SmaScore2(ind)
\* max_score when every block counts its slot, present or not
FallbackMaxScore_Penalising(ind) == 3 + Count(BandsCounted(ind))

FallbackMaxScore(ind) ==
    Count(RsiCounted(ind)) + Count(MacdCounted(ind)) + Count(SmaCounted(ind))
      + Count(BandsCounted(ind))
FallbackSignals(ind) ==
    RsiSignals(ind) \o MacdSignals(ind) \o SmaSignals(ind) \o BandSignals(ind)
      \o ObvSignals(ind)

\* "confidence = (score / max_score) if max_score > 0 else 0"
FallbackConfidence(ind) ==
    IF FallbackMaxScore(ind) > 0
      THEN Frac(FallbackScore2(ind), 2 * FallbackMaxScore(ind))
      ELSE Frac(0, 1)

\* "is_breakout = confidence > 0.6 and score >= 2"
FallbackIsBreakout(ind) ==
    FracGT(FallbackConfidence(ind), 6, 10) /\ FallbackScore2(ind) >= 4

\* The dictionary _fallback_analysis returns
FallbackAnalysis(symbol, ind) ==
    [symbol |-> symbol,
     is_breakout |-> FallbackIsBreakout(ind),
     confidence |-> FallbackConfidence(ind),
     signals |-> FallbackSignals(ind),
     reasoning |-> IF FallbackIsBreakout(ind)
                     THEN "Rule-based analysis: potential breakout"
                     ELSE "Rule-based analysis: insufficient signals"]

\* ---- the remote service, as seen by requests.post in _call_llm_api:
\*   outcome  "transport_error"  requests.post raises
\*            "status_error"     status_code is not 200
\*            "bad_body"         200, but the body is not JSON or has no
\*                               choices[0].message.content
\*            "content"          200 with a content string
\*   text     the content: "empty", "garbage" (not JSON), "array" (JSON, but
\*            not an object), "object" (a JSON object)
\*   wrap     the content is bare, inside ```json ... ``` or inside ``` ... ```
\*   keyword  the text contains "yes" or "breakout"
\*   is_breakout, conf, n   the keys of the JSON object: is_breakout is
\*            "absent", "true" or "false"; confidence is "absent", the
\*            "number" n, or "other" (null, a string)
RemoteOf(o, t, w, k, b, c, n) ==
    [outcome |-> o, text |-> t, wrap |-> w, keyword |-> k,
     is_breakout |-> b, conf |-> c, n |-> n]

Wraps       == {"none", "json", "plain"}
ConfNumbers == {-5, 0, 61, 100, 150}

RemoteFailures ==
    { RemoteOf(o, "empty", "none", FALSE, "absent", "absent", 0) :
        o \in {"transport_error", "status_error", "bad_body"} }
RemoteContents ==
    {RemoteOf("content", "empty", "none", FALSE, "absent", "absent", 0)}
      \cup { RemoteOf("content", "garbage", w, k, "absent", "absent", 0) :
               w \in Wraps, k \in BOOLEAN }
      \cup { RemoteOf("content", "array", w, FALSE, "absent", "absent", 0) :
               w \in Wraps }
      \cup { RemoteOf("content", "object", w, FALSE, b, "number", n) :
               w \in Wraps, b \in {"absent", "true", "false"},
               n \in ConfNumbers }
      \cup { RemoteOf("content", "object", "none", FALSE, b, c, 0) :
               b \in {"absent", "true", "false"}, c \in {"absent", "other"} }
RemoteOutcomes == RemoteFailures \cup RemoteContents

\* The remote service is not asked when no key is configured
NotAsked == RemoteOf("transport_error", "empty", "none", FALSE, "absent", "absent", 0)

\* What a call of a method ends in: it returns a dictionary through one of
\* the return statements ("ai": the parsed answer, "text": the except branch
\* of _parse_llm_response, "fallback": _fallback_analysis) or it raises
Returned(path, v) == [tag |-> "return", path |-> path, verdict |-> <<v>>]
Raised            == [tag |-> "raise", path |-> "none", verdict |-> <<>>]

\* _call_llm_api: None without a key, on every exception and on a status
\* other than 200; otherwise the content
CallLlmApi(key, rem) ==
    IF ~key THEN <<>>
    ELSE IF rem.outcome # "content" THEN <<>>
    ELSE <<rem>>

\* "if response:" is false for None and for the empty string
Truthy(response) == response # <<>> /\ response[1].text # "empty"

\* _parse_llm_response: "response.strip()" and the removal of the fence
StripFence(content) == [content EXCEPT !.wrap = "none"]

\* _parse_llm_response from json.loads on
ParseLlmResponse(symbol, content) ==
    LET text == StripFence(content) IN
    IF text.text \in {"garbage", "empty"}
      THEN \* "except json.JSONDecodeError": a verdict made from the raw text
           Returned("text",
                    [symbol |-> symbol,
                     is_breakout |-> text.keyword,
                     confidence |-> Frac(5, 10),
                     signals |-> <<>>,
                     reasoning |-> "response[:200]"])
    ELSE IF text.text = "array"
      THEN Raised                      \* data.get: AttributeError
    ELSE IF text.conf = "other"
      THEN Raised                      \* confidence / 100.0: TypeError
    ELSE Returned("ai",
                  [symbol |-> symbol,
                   is_breakout |-> (text.is_breakout = "true"),
                   confidence |->
                       Frac(IF text.conf = "number" THEN text.n ELSE 0, 100),
                   signals |-> <<>>,
                   reasoning |-> "data.get('reasoning')"])

\* analyze_breakout, the body of its try block
TryAnalyze(symbol, key, rem, ind) ==
    LET response == CallLlmApi(key, rem) IN
    IF Truthy(response)
      THEN ParseLlmResponse(symbol, response[1])
      ELSE Returned("fallback", FallbackAnalysis(symbol, ind))

\* analyze_breakout, "except Exception as e:"
ExceptException_Reraise(symbol, ind) == Raised
ExceptException(symbol, ind) ==
    Returned("fallback", FallbackAnalysis(symbol, ind))

\* LLMBreakoutService.analyze_breakout
AnalyzeBreakout(symbol, key, rem, ind) ==
    LET body == TryAnalyze(symbol, key, rem, ind) IN
    IF body.tag = "raise" THEN ExceptException(symbol, ind) ELSE body

ClassifierInit ==
    /\ api_key \in BOOLEAN
    /\ remote \in (IF api_key THEN RemoteOutcomes ELSE {NotAsked})
    /\ indicators \in IndicatorSets
    /\ analysis = <<>>

\* No classification requested
ClassifierUnused ==
    /\ api_key = FALSE
    /\ remote = NotAsked
    /\ indicators = NoIndicators
    /\ analysis = <<>>

\* One call of analyze_breakout
Analyze(symbol) ==
    /\ analysis = <<>>
    /\ analysis' = <<AnalyzeBreakout(symbol, api_key, remote, indicators)>>
    /\ UNCHANGED <<api_key, remote, indicators>>
    /\ UNCHANGED <<radarVars, callerVars, limiterVars, screenVars, clearVars>>

ClassifyNext == \E symbol \in Symbols : Analyze(symbol)

\* Route /screen/stock: "await orchestrator.screen_single_stock(symbol)" on
\* the event loop
ScreenStock(r, s) ==
    /\ ScreenFrame
    /\ UNCHANGED tindicators
    /\ EventLoopFree
    /\ tpc[r] = "none"
    /\ \A q \in RequestIds : q < r => tpc[q] = "done"
    /\ tsymbol' = [tsymbol EXCEPT ![r] = s]
    /\ tpc' = [tpc EXCEPT ![r] = "fetch"]
    /\ UNCHANGED <<radarVars, storeVars, runVars, tprice, tverdict, tresult,
                   fetched, calls, faulted, tstored, tadded>>

\* The service: requests of /screen/stock and one full-universe run
ServiceNext ==
    \/ \E r \in RequestIds, s \in Symbols : ScreenStock(r, s)
    \/ \E mc \in 0 .. MaxConcurrent : ScreenAllBegin(mc)
    \/ \E i \in Tasks : StartTask(i)
    \/ \E i \in PipelineIds : FetchData(i)
    \/ \E i \in PipelineIds : ComputeIndicators(i)
    \/ \E i \in PipelineIds : Classify(i)
    \/ \E i \in PipelineIds : StoreData(i)
    \/ \E i \in PipelineIds : RadarDecide(i)
    \/ \E i \in PipelineIds : RadarRpush(i)
    \/ \E i \in PipelineIds : RadarSadd(i)
    \/ ScreenAllReturn

\* Route /data/clear: RedisService.clear_all_data on the event loop, which
\* it occupies until it returns; the worker threads of the pool run on.
\* "self.client.delete(REDIS_STOCK_LIST_KEY, REDIS_RADAR_QUEUE_KEY,
\* 'stocks:radar:set')" is one command; when it raises nothing is deleted
\* and clear_all_data returns False
ClearDelete ==
    /\ UNCHANGED <<callerVars, limiterVars, classifyVars, runVars, taskVars>>
    /\ EventLoopFree
    /\ nClears < MaxClears
    /\ nClears' = nClears + 1
    /\ \/ /\ stockList' = <<>>
          /\ radarList' = <<>>
          /\ radarSet' = {}
          /\ clearPc' = "scan"
       \/ UNCHANGED <<stockList, radarVars, clearPc>>
    /\ UNCHANGED <<stockData, clearKeys>>

\* "keys = self.client.keys(f'{REDIS_STOCK_DATA_PREFIX}*')" and "if keys:"
ClearScan ==
    /\ UNCHANGED <<callerVars, limiterVars, classifyVars, runVars, taskVars>>
    /\ clearPc = "scan"
    /\ LET keys == {s \in DOMAIN stockData : stockData[s] # <<>>} IN
       /\ clearKeys' = keys
       /\ clearPc' = IF keys = {} THEN "idle" ELSE "delete"
    /\ UNCHANGED <<radarVars, storeVars, nClears>>

\* "self.client.delete(*keys)"
ClearDeleteData ==
    /\ UNCHANGED <<callerVars, limiterVars, classifyVars, runVars, taskVars>>
    /\ clearPc = "delete"
    /\ stockData' = [s \in DOMAIN stockData |->
                        IF s \in clearKeys THEN <<>> ELSE stockData[s]]
    /\ clearKeys' = {}
    /\ clearPc' = "idle"
    /\ UNCHANGED <<radarVars, stockList, nClears>>

\* A full-universe run with a request of /data/clear
ClearNext ==
    \/ \E mc \in 0 .. MaxConcurrent : ScreenAllBegin(mc)
    \/ \E i \in Tasks : StartTask(i)
    \/ \E i \in Tasks : FetchData(i)
    \/ \E i \in Tasks : ComputeIndicators(i)
    \/ \E i \in Tasks : Classify(i)
    \/ \E i \in Tasks : StoreData(i)
    \/ \E i \in Tasks : RadarDecide(i)
    \/ \E i \in Tasks : RadarRpush(i)
    \/ \E i \in Tasks : RadarSadd(i)
    \/ ScreenAllReturn
    \/ ClearDelete
    \/ ClearScan
    \/ ClearDeleteData

\* The universes of the service specification
SmallUniverses == {u \in Universes : Len(u) <= 1}

ServiceInit ==
    /\ stockList \in SmallUniverses
    /\ ScreenIdle

(***************************************************************************)
(* Specifications.                                                         *)
(***************************************************************************)
\* The limiter as YFinanceService leaves it when nothing has called it
LimiterIdle ==
    LimiterInit /\ requests_per_minute = 1 /\ delay_between_requests = 0

\* The limiter YFinanceService.__init__ builds from the settings; the
\* orchestrator specifications keep the clock still, so the spacing delay,
\* which only postpones an acquisition, is left at 0
LimiterConfigured ==
    /\ requests_per_minute = YFINANCE_REQUESTS_PER_MINUTE
    /\ delay_between_requests = 0
    /\ LimiterFresh

\* No universe stored and no run started
ScreenUnused == stockList = <<>> /\ ScreenIdle

\* No request of /data/clear so far
ClearIdle == clearPc = "idle" /\ clearKeys = {} /\ nClears = 0

RadarSpecInit ==
    /\ RadarInit /\ CallerInit /\ LimiterIdle /\ ScreenUnused /\ ClassifierUnused
    /\ ClearIdle
LimiterSpecInit ==
    /\ RadarInit /\ CallerInit /\ LimiterInit /\ ScreenUnused /\ ClassifierUnused
    /\ ClearIdle
ScreenSpecInit ==
    /\ RadarInit /\ CallerInit /\ LimiterConfigured /\ ScreenInit /\ ClassifierUnused
    /\ ClearIdle
ClassifySpecInit ==
    /\ RadarInit /\ CallerInit /\ LimiterIdle /\ ScreenUnused /\ ClassifierInit
    /\ ClearIdle

ServiceSpecInit ==
    /\ RadarInit /\ CallerInit /\ LimiterConfigured /\ ServiceInit /\ ClassifierUnused
    /\ ClearIdle

RadarSpec == RadarSpecInit /\ [][RadarNext]_vars

ClearSpec == ServiceSpecInit /\ [][ClearNext]_vars

ServiceSpec == ServiceSpecInit /\ [][ServiceNext]_vars

ClassifySpec == ClassifySpecInit /\ [][ClassifyNext]_vars

LimiterSpec == LimiterSpecInit /\ [][LimiterNext]_vars

ScreenSpec == ScreenSpecInit /\ [][ScreenNext]_vars

\* The scheduler runs every thread that can run, the clock does not stop, and
\* a thread waiting for a lock that is released again and again gets it.
LimiterLive ==
    /\ LimiterSpecInit
    /\ [][LimiterNext]_vars
    /\ WF_vars(Tick)
    /\ \A t \in LCallers : WF_vars(LimiterStep(t)) /\ SF_vars(Enter(t))

(***************************************************************************)
(* Radar queue claims (RadarSpec).                                         *)
(***************************************************************************)

\* C1: after any sequence of add and remove operations the ordered radar
\* list returned by get_all_radar_stocks holds at most one entry per symbol.
C1_AtMostOneEntryPerSymbol ==
    \A s \in Symbols : EntriesOf(GetRadarStocks, s) <= 1

InWindowEndingAt(t) ==
    {j \in DOMAIN acquired : t - WindowSeconds < acquired[j] /\ acquired[j] <= t}

\* C4: no trailing 60-second window holds more recorded acquisitions than
\* requests_per_minute, whatever the interleaving of the callers.
C4_WindowNeverExceedsQuota ==
    \A i \in DOMAIN acquired :
        Cardinality(InWindowEndingAt(acquired[i])) <= requests_per_minute

\* C5: every call of wait_if_needed eventually returns, for every quota and
\* any number of callers.
C5_EveryAcquireReturns ==
    \A t \in LCallers : (lpc[t] = "enter") ~> (lpc[t] = "idle")

\* C6: with a minimum delay d > 0 any two consecutively recorded
\* acquisitions are at least d apart.
C6_MinimumSpacing ==
    \A i \in DOMAIN acquired :
        i > 1 => acquired[i] - acquired[i - 1] >= delay_between_requests

\* C6 witness: d > 0 and a caller that had to sleep for the spacing is about
\* to record a timestamp exactly d after the previous one.
C6_Witness ==
    /\ delay_between_requests > 0
    /\ last_request_time # <<>>
    /\ \E t \in LCallers :
          /\ lpc[t] = "record"
          /\ wakeAt[t] = lnow[t]
          /\ lnow[t] - last_request_time[1] = delay_between_requests

(***************************************************************************)
(* Orchestrator claims (ScreenSpec).                                       *)
(***************************************************************************)
Invoked(i, what) == \E k \in DOMAIN calls[i] : calls[i][k] = what

\* C7: during screen_all_stocks at most max_concurrent pipelines are in
\* flight at any moment, and a queued symbol is started only while fewer
\* than max_concurrent are running.
C7_AtMostMaxConcurrentInFlight ==
    /\ [](runPc = "gather" => Cardinality(InFlight) <= max_concurrent)
    /\ [][ \A i \in Tasks :
             (tpc[i] = "queued" /\ tpc'[i] # "queued") =>
                 Cardinality(InFlight) < max_concurrent ]_vars

\* C7 witness: the cap of 2 is reached while a third symbol still waits.
C7_Witness ==
    /\ runPc = "gather"
    /\ max_concurrent = 2
    /\ Cardinality(InFlight) = 2
    /\ \E i \in Tasks : tpc[i] = "queued"

C9_NoDataShortCircuit ==
    /\ [](\A i \in Tasks :
            fetched[i] = "empty" =>
                /\ tresult[i].status = "no_data"
                /\ tpc[i] = "done"
                /\ calls[i] = <<"fetch">>
                /\ tverdict[i] = <<>>)
    /\ [][ \A i \in Tasks :
             (fetched[i] # "empty" /\ fetched'[i] = "empty") =>
                 UNCHANGED <<stockData, radarList, radarSet>> ]_vars

\* C9 witness: the second symbol had no data while the first went through
\* the whole pipeline and was stored.
C9_Witness ==
    /\ Len(stockList) >= 2
    /\ fetched[2] = "empty"
    /\ tresult[2].status = "no_data"
    /\ tresult[1].status = "success"
    /\ stockData[stockList[1]] # <<>>
    /\ stockData[stockList[2]] = <<>>

\* C10: a pipeline calls add_stock_to_radar exactly when its verdict has
\* is_breakout true and confidence above 0.6; a step of a pipeline whose
\* verdict does not qualify leaves the radar list and set unchanged.
C10_RadarAddIffQualifies ==
    /\ [](\A i \in Tasks :
            /\ tresult[i].status = "success" =>
                 (Invoked(i, "radar") <=>
                    (Verdict(i).is_breakout /\ Verdict(i).confidence > 60))
            /\ (tpc[i] = "done" /\ tresult[i].status # "success") =>
                 ~Invoked(i, "radar"))
    /\ [][ \A i \in Tasks :
             ( /\ tpc'[i] # tpc[i]
               /\ tverdict[i] # <<>>
               /\ ~(Verdict(i).is_breakout /\ Verdict(i).confidence > 60) ) =>
                 UNCHANGED <<radarList, radarSet>> ]_vars

\* C10 witness: one pipeline finished with is_breakout at confidence exactly
\* 0.6 and made no radar call, another at 0.61 made it and is tracked.
C10_Witness ==
    \E i, j \in Tasks :
        /\ tresult[i].status = "success"
        /\ Verdict(i) = [is_breakout |-> TRUE, confidence |-> 60]
        /\ ~Invoked(i, "radar")
        /\ ~IsInRadar(stockList[i])
        /\ tresult[j].status = "success"
        /\ Verdict(j) = [is_breakout |-> TRUE, confidence |-> 61]
        /\ Invoked(j, "radar")
        /\ IsInRadar(stockList[j])

(***************************************************************************)
(* Pipeline and service claims (ServiceSpec, ScreenSpec).                  *)
(***************************************************************************)

\* C11: the flag added_to_radar of a success outcome is true exactly when
\* this pipeline's add_stock_to_radar returned True, i.e. inserted a new
\* entry; it is false when the symbol was already tracked, when the add
\* failed and when no add was attempted.
C11_FlagIffInserted ==
    \A i \in PipelineIds :
        tresult[i].status = "success" =>
            (tresult[i].added_to_radar <=> AddReturned(i))

\* The symbol's entries of the radar list, in order
EntriesFor(list, s) == SelectSeq(list, LAMBDA e : e.symbol = s)

\* C12: two successive screenings of one symbol that both succeed with
\* different results leave the second result in the store, and when both
\* verdicts qualify the radar list holds exactly one entry for the symbol,
\* the one the first screening created.
C12_IdempotentOverwrite ==
    \A a, b \in RequestIds :
        ( /\ b = a + 1
          /\ runPc = "idle"
          /\ tresult[a].status = "success"
          /\ tresult[b].status = "success"
          /\ tsymbol[a] = tsymbol[b]
          /\ <<tprice[a], tverdict[a]>> # <<tprice[b], tverdict[b]>> ) =>
            LET s == tsymbol[a] IN
            /\ stockData[s] = <<StockDataOf(s, tprice[b], Verdict(b))>>
            /\ (Qualifies(Verdict(a)) /\ Qualifies(Verdict(b))) =>
                  EntriesFor(radarList, s) =
                      <<RadarEntry(s, Verdict(a), tprice[a])>>

\* C13: a pipeline whose store write failed ends in an error outcome, not in
\* a success outcome, and the run still screens the other symbols and
\* returns its report.
C13_StoreFailureIsError ==
    /\ \A i \in Tasks :
          (tpc[i] = "done" /\ tstored[i] = "failed") =>
              tresult[i].status = "error"
    /\ (runPc = "done" /\ \E i \in Tasks : tstored[i] = "failed") =>
          /\ runStatus = "success"
          /\ \A i \in Tasks : tpc[i] = "done"

\* C19: screen_all_stocks on an empty universe returns a top-level error and
\* does no work: no limiter acquisition, no fetch, no classification, no
\* store write and no radar mutation.
C19_EmptyUniverseFailsFast ==
    /\ [](( stockList = <<>> /\ runPc # "idle" ) =>
            /\ runPc = "done"
            /\ runStatus = "error"
            /\ nAcquire = 0 /\ acquired = <<>> /\ request_times = <<>>
            /\ \A i \in PipelineIds : tpc[i] = "none" /\ calls[i] = <<>>
            /\ \A s \in Symbols : stockData[s] = <<>>
            /\ radarList = <<>> /\ radarSet = {})
    /\ [][ (stockList = <<>> /\ runPc = "idle" /\ runPc' # "idle") =>
             UNCHANGED <<limiterVars, radarVars, storeVars, taskVars>> ]_vars

\* C19 witness: the run on the empty universe has returned its error.
C19_Witness ==
    /\ stockList = <<>>
    /\ runPc = "done"
    /\ runStatus = "error"
    /\ max_concurrent > 0

\* C20: when a worker of the run and a request of /screen/stock (the only
\* two pipelines of that symbol, the symbol untracked before, Redis
\* answering every command) both call add_stock_to_radar, exactly one call
\* returns True and the list ends with exactly one entry for the symbol.
C20_ConcurrentAddInsertsOnce ==
    \A i \in Tasks, r \in RequestIds :
        ( /\ tsymbol[i] = tsymbol[r]
          /\ \A q \in PipelineIds \ {i, r} : tsymbol[q] # tsymbol[i]
          /\ tpc[i] = "done" /\ tpc[r] = "done"
          /\ tadded[i] \in {"tracked", "inserted"}
          /\ tadded[r] \in {"tracked", "inserted"} ) =>
            /\ AddReturned(i) # AddReturned(r)
            /\ EntriesOf(radarList, tsymbol[i]) = 1

(***************************************************************************)
(* Classifier claims (ClassifySpec).                                       *)
(***************************************************************************)

\* The remote answer cannot be parsed as the expected JSON object
Unparseable(rem) ==
    /\ rem.outcome = "content"
    /\ \/ rem.text \in {"empty", "garbage", "array"}
       \/ rem.text = "object" /\ rem.conf = "other"

\* C14: without a key, when the remote call fails and when the response
\* cannot be parsed as the expected JSON object, analyze_breakout returns
\* exactly the verdict of the rule-based fallback on the given indicators.
C14_FallbackOnEveryFailure ==
    ( /\ analysis # <<>>
      /\ \/ ~api_key
         \/ remote.outcome \in {"transport_error", "status_error", "bad_body"}
         \/ Unparseable(remote) ) =>
        /\ analysis[1].tag = "return"
        /\ analysis[1].verdict =
              <<FallbackAnalysis(analysis[1].verdict[1].symbol, indicators)>>

\* C15: analyze_breakout never raises: whatever the remote call does (no
\* key, transport exception, error status, empty text, unparseable text,
\* JSON of the wrong shape) it returns a verdict.
C15_NeverRaises ==
    analysis # <<>> =>
        /\ analysis[1].tag = "return"
        /\ Len(analysis[1].verdict) = 1
        /\ analysis[1].verdict[1].is_breakout \in BOOLEAN
        /\ analysis[1].verdict[1].confidence.den > 0

\* C15 witness: the remote service answered with JSON that is not an object,
\* the parse raised inside analyze_breakout, and the call still returned.
C15_Witness ==
    /\ api_key
    /\ remote.outcome = "content"
    /\ remote.text = "array"
    /\ analysis # <<>>
    /\ analysis[1].tag = "return"

\* The scoring of the claim: half points of RSI, MACD and moving averages,
\* and one point of maxScore per scored indicator that is present
ClaimScore2(ind) ==
    (IF ~Present(ind.rsi) THEN 0
     ELSE IF ind.rsi[1] < 30 THEN 2
     ELSE IF 30 < ind.rsi[1] /\ ind.rsi[1] < 70 THEN 1
     ELSE 0)
    + (IF ~(Present(ind.macd) /\ Present(ind.macd_signal)) THEN 0
       ELSE IF ind.macd[1] > ind.macd_signal[1] /\ ind.macd[1] > 0 THEN 2
       ELSE IF ind.macd[1] > ind.macd_signal[1] THEN 1
       ELSE 0)
    + (IF Present(ind.sma_20) /\ Present(ind.sma_50)
          /\ ind.sma_20[1] > ind.sma_50[1] THEN 2 ELSE 0)

ClaimMaxScore(ind) ==
    Count(Present(ind.rsi))
      + Count(Present(ind.macd) /\ Present(ind.macd_signal))
      + Count(Present(ind.sma_20) /\ Present(ind.sma_50))

\* {rsi: 25, macd: 1.0, macd_signal: 0.5, sma_20: 110, sma_50: 100}
ClaimExample ==
    [NoIndicators EXCEPT !.rsi = <<25>>, !.macd = <<10>>, !.macd_signal = <<5>>,
                         !.sma_20 = <<110>>, !.sma_50 = <<100>>]

\* C16: a fallback verdict has score = the sum of the RSI, MACD and moving
\* average points of the present indicators, confidence = score / maxScore
\* (0 when maxScore is 0) and is_breakout = (confidence > 0.6 and score >= 2);
\* for the example set this is score 3, maxScore 3, confidence 1.0, breakout.
C16_FallbackScoring ==
    (analysis # <<>> /\ analysis[1].path = "fallback") =>
        LET v == analysis[1].verdict[1]
            score2 == ClaimScore2(indicators)
            maxScore == ClaimMaxScore(indicators)
        IN  /\ FallbackScore2(indicators) = score2
            /\ IF maxScore = 0
                 THEN FracEq(v.confidence, 0, 1)
                 ELSE FracEq(v.confidence, score2, 2 * maxScore)
            /\ v.is_breakout <=>
                  (maxScore > 0 /\ score2 * 10 > 6 * 2 * maxScore /\ score2 >= 4)
            /\ indicators = ClaimExample =>
                  /\ score2 = 6 /\ maxScore = 3
                  /\ FracEq(v.confidence, 1, 1)
                  /\ v.is_breakout

\* C17: every verdict analyze_breakout returns, from the remote answer as
\* well as from the fallback, has a confidence in the closed interval [0, 1].
C17_ConfidenceInUnitInterval ==
    (analysis # <<>> /\ analysis[1].tag = "return") =>
        LET c == analysis[1].verdict[1].confidence IN
        0 <= c.num /\ c.num <= c.den

\* C18: every verdict carries a source tag, 'ai' when it was made from the
\* remote response and 'fallback' when it was made by the rule-based scoring
\* (and the stored screening result keeps that tag).
C18_SourceTag ==
    (analysis # <<>> /\ analysis[1].tag = "return") =>
        LET v == analysis[1].verdict[1] IN
        /\ "source" \in DOMAIN v
        /\ v.source = (IF analysis[1].path = "fallback" THEN "fallback" ELSE "ai")

(***************************************************************************)
(* Radar queue claims, continued (RadarSpec).                              *)
(***************************************************************************)

\* C21: once remove(s) has completed and no later add of s took effect, s is
\* not a member any more, get_all_radar_stocks returns no entry for s and
\* get_radar_count does not count one.
C21_RemoveClearsListEntry ==
    \A s \in Symbols :
        netEffect[s] = "remove" =>
            /\ ~IsInRadar(s)
            /\ EntriesOf(GetRadarStocks, s) = 0
            /\ GetRadarCount =
                  Cardinality({i \in DOMAIN GetRadarStocks :
                                  GetRadarStocks[i].symbol # s})

(***************************************************************************)
(* Pipeline claims, continued (ScreenSpec).                                *)
(***************************************************************************)

\* The collaborators of one pipeline, in the order of the steps
PipelineOrder == <<"fetch", "indicators", "classify", "store", "radar">>

IsPrefix(s, t) == Len(s) <= Len(t) /\ s = SubSeq(t, 1, Len(s))

\* C22: within one symbol's pipeline the collaborators are invoked in the
\* order fetch, indicators, classifier, store, radar add: what a pipeline
\* has invoked so far is always an initial part of that sequence, so no
\* step comes before, or without, the steps ahead of it.
C22_StepsInOrder ==
    \A i \in Tasks : IsPrefix(calls[i], PipelineOrder)

\* C22 witness: a later task has gone through all five steps while an
\* earlier one has only fetched (no order between the symbols).
C22_Witness ==
    \E i, j \in Tasks :
        /\ i < j
        /\ calls[i] = <<"fetch">>
        /\ calls[j] = PipelineOrder

(***************************************************************************)
(* RateLimiter claims, continued (LimiterSpec).                            *)
(***************************************************************************)

\* Caller t is between the admission check and the recording of its call
InSection(t) == lpc[t] \in {"sleep_quota", "sleep_delay", "record"}

\* C23: the window and the last-call marker are read and updated inside one
\* mutual-exclusion section: at most one caller is between its admission
\* check and its record, that caller holds the lock, and no step changes
\* the window or the marker without the lock being held.
C23_BookkeepingSerialized ==
    /\ [](/\ Cardinality({t \in LCallers : InSection(t)}) <= 1
          /\ \A t \in LCallers : InSection(t) => lock = t)
    /\ [][ <<request_times, last_request_time>>' # <<request_times, last_request_time>>
             => (lock # NoHolder \/ lock' # NoHolder) ]_vars

\* C23 witness: one caller sleeps inside the section, the other has called
\* wait_if_needed and is kept out, and an earlier call has been recorded.
C23_Witness ==
    \E t, u \in LCallers :
        /\ t # u
        /\ lpc[t] = "sleep_delay"
        /\ lock = t
        /\ lpc[u] = "enter"
        /\ acquired # <<>>

\* The pipelines whose provider call (ticker.history) has been made
ProviderCalls == {i \in PipelineIds : fetched[i] # "none"}

\* C24: every provider call of a pipeline comes with one acquisition of the
\* one shared limiter, made by that pipeline just before it: the limiter
\* has recorded exactly as many acquisitions as provider calls were made,
\* and a step makes a provider call only together with one new recorded
\* acquisition, for every max_concurrent.
C24_OneAcquirePerProviderCall ==
    /\ [](/\ nAcquire = Cardinality(ProviderCalls)
          /\ Len(acquired) = nAcquire)
    /\ [][ \A i \in PipelineIds :
              fetched'[i] # fetched[i] =>
                  /\ nAcquire' = nAcquire + 1
                  /\ acquired' = Append(acquired, clock)
                  /\ last_request_time' = <<clock>> ]_vars

\* C24 witness: a run with two workers has made the provider call of every
\* symbol of a universe of three.
C24_Witness ==
    /\ max_concurrent = 2
    /\ Len(stockList) = 3
    /\ Cardinality(ProviderCalls) = 3
    /\ nAcquire = 3

(***************************************************************************)
(* Classifier claims, continued (ClassifySpec).                            *)
(***************************************************************************)

\* The same indicators with the RSI, the MACD pair or the pair of moving
\* averages given a value
FilledRsi(ind) == {[ind EXCEPT !.rsi = r] : r \in RsiValues \ {<<>>}}
FilledMacd(ind) ==
    {[ind EXCEPT !.macd = m[1], !.macd_signal = m[2]] :
        m \in {p \in MacdPairs : Present(p[1]) /\ Present(p[2])}}
FilledSma(ind) ==
    {[ind EXCEPT !.sma_20 = a[1], !.sma_50 = a[2]] :
        a \in {p \in SmaPairs : Present(p[1]) /\ Present(p[2])}}

\* The claim's points (in halves) of one block taken alone
ClaimRsiPoints2(ind)  == ClaimScore2([NoIndicators EXCEPT !.rsi = ind.rsi])
ClaimMacdPoints2(ind) ==
    ClaimScore2([NoIndicators EXCEPT !.macd = ind.macd,
                                     !.macd_signal = ind.macd_signal])
ClaimSmaPoints2(ind)  ==
    ClaimScore2([NoIndicators EXCEPT !.sma_20 = ind.sma_20,
                                     !.sma_50 = ind.sma_50])

\* Block absent in ind: against the same indicators with the block present
\* (the set filled), score misses exactly the block's points and max_score
\* exactly one slot
SkippedAgainst(ind, filled, points2) ==
    /\ FallbackMaxScore(filled) = FallbackMaxScore(ind) + 1
    /\ FallbackScore2(filled) = FallbackScore2(ind) + points2

\* C25: in fallback scoring an absent RSI, an absent MACD or MACD signal and
\* an absent sma_20 or sma_50 add nothing to score and no slot to maxScore
\* (the slot is there exactly when the indicator is), and the confidence of
\* the verdict is the score over the slots that remain.
C25_AbsentIndicatorSkipped ==
    (analysis # <<>> /\ analysis[1].path = "fallback") =>
        LET ind == indicators
            v == analysis[1].verdict[1]
        IN  /\ ~Present(ind.rsi) =>
                  \A x \in FilledRsi(ind) :
                      SkippedAgainst(ind, x, ClaimRsiPoints2(x))
            /\ ~(Present(ind.macd) /\ Present(ind.macd_signal)) =>
                  \A x \in FilledMacd(ind) :
                      SkippedAgainst(ind, x, ClaimMacdPoints2(x))
            /\ ~(Present(ind.sma_20) /\ Present(ind.sma_50)) =>
                  \A x \in FilledSma(ind) :
                      SkippedAgainst(ind, x, ClaimSmaPoints2(x))
            /\ IF FallbackMaxScore(ind) = 0
                 THEN FracEq(v.confidence, 0, 1)
                 ELSE FracEq(v.confidence, FallbackScore2(ind),
                                           2 * FallbackMaxScore(ind))

\* C25 witness: a fallback verdict on indicators with the RSI absent and
\* all the others present; its confidence is below 1 only for the points
\* the present indicators did not score.
C25_Witness ==
    /\ analysis # <<>>
    /\ analysis[1].path = "fallback"
    /\ ~Present(indicators.rsi)
    /\ MacdCounted(indicators) /\ SmaCounted(indicators)
    /\ BandsCounted(indicators) /\ Present(indicators.obv)
    /\ FallbackMaxScore(indicators) = 3

\* The same indicators without the Bollinger band values
WithoutBands(ind) ==
    [ind EXCEPT !.bollinger_upper = <<>>, !.bollinger_middle = <<>>,
                !.bollinger_lower = <<>>]

\* C26: in fallback scoring the Bollinger band values add a signal and
\* nothing else: score, maxScore, confidence and is_breakout of the verdict
\* are those of the same indicators without the band values.
C26_BandsDescriptiveOnly ==
    (analysis # <<>> /\ analysis[1].path = "fallback") =>
        LET v == analysis[1].verdict[1]
            w == FallbackAnalysis(v.symbol, WithoutBands(indicators))
        IN  /\ FallbackScore2(indicators) = FallbackScore2(WithoutBands(indicators))
            /\ FallbackMaxScore(indicators) =
                  FallbackMaxScore(WithoutBands(indicators))
            /\ FracEq(v.confidence, w.confidence.num, w.confidence.den)
            /\ v.is_breakout = w.is_breakout

\* C27: when calculate_all_indicators returns None or an empty map for a
\* symbol with price data, the pipeline returns an error outcome (not the
\* no-data outcome) and invokes neither the classifier nor the store write
\* nor the radar queue.
C27_EmptyIndicatorsIsError ==
    \A i \in Tasks :
        (fetched[i] = "data" /\ tindicators[i] = "empty") =>
            /\ tpc[i] = "done"
            /\ tresult[i].status = "error"
            /\ tresult[i].status # NoDataResult.status
            /\ calls[i] = <<"fetch", "indicators">>
            /\ tverdict[i] = <<>>
            /\ tstored[i] = "none"
            /\ tadded[i] = "none"

\* C27 witness: the run has returned, one symbol had price data and an empty
\* indicator map, and another symbol was screened successfully.
C27_Witness ==
    /\ runPc = "done"
    /\ \E i, j \in Tasks :
          /\ fetched[i] = "data"
          /\ tindicators[i] = "empty"
          /\ tresult[i].status = "error"
          /\ tresult[j].status = "success"

\* The tasks of the run whose outcome has one of the given statuses
WithStatus(statuses) == {i \in Tasks : tresult[i].status \in statuses}

\* C28: the report of a completed run over n symbols has total = n; every
\* symbol is in exactly one of the classes success, no data, error, and the
\* report's no_data and errors counters are the sizes of their classes, so
\* successes + no_data + errors = total; processed <= total and
\* breakouts <= successes.
C28_ReportAccountsForEveryOutcome ==
    (runPc = "done" /\ runStatus = "success") =>
        LET successes == Cardinality(WithStatus({"success"})) IN
        /\ results.total = Len(stockList)
        /\ \A i \in Tasks :
              tresult[i].status \in {"success", "no_data", "error", "exception"}
        /\ results.no_data = Cardinality(WithStatus({"no_data"}))
        /\ results.errors = Cardinality(WithStatus({"error", "exception"}))
        /\ successes + results.no_data + results.errors = results.total
        /\ results.processed <= results.total
        /\ results.breakouts <= successes

\* C28 witness: a report over three symbols with one success that went to
\* the radar, one symbol without data and one error.
C28_Witness ==
    /\ runPc = "done"
    /\ runStatus = "success"
    /\ results = [total |-> 3, processed |-> 3, breakouts |-> 1, errors |-> 1,
                  no_data |-> 1]

(***************************************************************************)
(* Service claims, continued (ServiceSpec).                                *)
(***************************************************************************)

\* Pipeline i is inside add_to_radar, between its Redis commands
InsideAdd(i) == tpc[i] \in {"rpush", "sadd"}

\* A fault ended pipeline i, or its radar add, before its last step
Aborted(i) == faulted[i] \/ tadded[i] = "failed"

\* C29: after a pipeline was aborted by a fault, also one between the rpush
\* and the sadd of its radar add, the radar queue is consistent whenever no
\* add is under way: a symbol has an entry in the list exactly when it is a
\* member, and no symbol has a second entry.
C29_AbortLeavesRadarConsistent ==
    ( /\ \E i \in PipelineIds : Aborted(i)
      /\ \A i \in PipelineIds : ~InsideAdd(i) ) =>
        \A s \in Symbols :
            /\ (EntriesOf(GetRadarStocks, s) >= 1) <=> IsInRadar(s)
            /\ EntriesOf(GetRadarStocks, s) <= 1

(***************************************************************************)
(* Radar store claim (ClearSpec).                                          *)
(***************************************************************************)

\* C30: in every reachable state of the radar store every member of the
\* membership set has at least one entry in the ordered list.
C30_MemberHasListEntry ==
    \A s \in StoredSymbols : IsInRadar(s) => EntriesOf(GetRadarStocks, s) >= 1

====
